---------------------------- MODULE Spec2Model ----------------------------
(***************************************************************************)
(* LitGNN: the CMPNN message-passing network and the PNA degree cache.     *)
(*                                                                         *)
(* Every operation of the repository is a synchronous call.  A behaviour   *)
(* of a CMPNN specification is one call: the initial state holds the       *)
(* receiver object (self) and the arguments of the call (args), the action *)
(* runs the whole method and leaves its result in ret and the locals worth *)
(* observing in local.  A behaviour of SpecPNA is a sequence of calls on   *)
(* the classes of litgnn/models/pna.py.                                    *)
(*                                                                         *)
(* Tensors.  A tensor with R rows is a sequence of R rows; the feature     *)
(* axis is modelled one channel at a time, so a row is an integer.  The    *)
(* code indexes from 0, sequences from 1: Row(t, i) is the code's t[i].    *)
(* The shapes of CMPNN.forward, where the width of the feature axis is     *)
(* what matters, are modelled separately as <<rows, columns>>.             *)
(*                                                                         *)
(* Learned parameters.  nn.Linear is w*v + b and a recurrent cell is       *)
(* w_ih*input + w_hh*hx + b over the integers, with fixed representative   *)
(* weights: what the model keeps of a cell is that its result depends on   *)
(* both arguments, is not symmetric in them, and is not hx for a zero      *)
(* input.                                                                  *)
(***************************************************************************)
EXTENDS Integers, Sequences, FiniteSets

VARIABLES pc, self, args, local, ret

vars == <<pc, self, args, local, ret>>

None == [none |-> TRUE]

(***************************************************************************)
(* Bounds of the model.                                                    *)
(***************************************************************************)
MaxNumEdges == 60

MaxNodes == 2

MaxEdges == 2

MaxAtoms == 4

MaxLayers == 2

MaxChannels == 3

(***************************************************************************)
(* Helpers: tensor primitives of the runtime.                              *)
(***************************************************************************)
Row(t, i) == t[i + 1]

relu(v) == IF v > 0 THEN v ELSE 0

Linear(p, v) == p.weight * v + p.bias

\* nn.GRUCell.forward(input, hx) and one step of nn.GRU: first the step
\* input, then the prior state.
GRUCell(p, input, hx) == p.w_ih * input + p.w_hh * hx + p.b

RECURSIVE SetSum(_, _)
SetSum(S, f) ==
    IF S = {} THEN 0
    ELSE LET e == CHOOSE e \in S : TRUE IN f[e] + SetSum(S \ {e}, f)

SetMax(S) == CHOOSE m \in S : \A k \in S : k <= m

(***************************************************************************)
(* GCNEConv.get_reverse_edge_index                                         *)
(***************************************************************************)
RECURSIVE reverse_loop_swapless(_, _)
reverse_loop_swapless(i, n) ==
    IF i >= n THEN <<>> ELSE <<i * 2, i * 2 + 1>> \o reverse_loop_swapless(i + 1, n)

get_reverse_edge_index_unswapped(num_edges) ==
    reverse_loop_swapless(0, num_edges \div 2)

RECURSIVE reverse_loop(_, _)
reverse_loop(i, n) ==
    IF i >= n THEN <<>> ELSE <<i * 2 + 1, i * 2>> \o reverse_loop(i + 1, n)

get_reverse_edge_index(num_edges) ==
    reverse_loop(0, num_edges \div 2)

(***************************************************************************)
(* NodeEdgeMessageCommunicator                                             *)
(***************************************************************************)
CommunicatorNames == {"additive", "inner_product", "gru", "mlp"}

\* The learned parameters of the communicator's nn.GRUCell and of its
\* nn.Linear(2H, H); the latter has one weight per half of its input.
communicator_gru == [w_ih |-> 1, w_hh |-> 2, b |-> 1]

communicator_mlp == [w_first |-> 1, w_second |-> 3, bias |-> 0]

communicator_mlp_forward(cat) ==
    relu(communicator_mlp.w_first * cat[1] + communicator_mlp.w_second * cat[2]
         + communicator_mlp.bias)

NodeEdgeMessageCommunicator_forward(name, message, hidden_state) ==
    CASE name = "additive" -> hidden_state + message
      [] name = "inner_product" -> hidden_state * message
      [] name = "gru" -> GRUCell(communicator_gru, hidden_state, message)
      [] name = "mlp" -> communicator_mlp_forward(<<hidden_state, message>>)

(***************************************************************************)
(* Convolution layers (litgnn/nn/models/cmpnn/model.py).                   *)
(* edge_index is <<row 0, row 1>>: edge e runs from node edge_index[1][e]  *)
(* (edge_index[0] in the code, the source) to node edge_index[2][e]        *)
(* (edge_index[1] in the code, the target).                                *)
(***************************************************************************)
Raise == [status |-> "raise"]

\* Broadcasting of two sizes of one axis: equal, or one of them 1 (which
\* expands to the other, 0 included); -1 when the shapes do not broadcast.
BroadcastDim(a, b) ==
    IF a = b THEN a ELSE IF a = 1 THEN b ELSE IF b = 1 THEN a ELSE -1

Expand(t, rows, k) == IF Len(t) = rows THEN t[k] ELSE t[1]

\* F.dropout(v, p, training) for the element whose mask bit is keep.
dropout(v, p, training, keep) ==
    IF training /\ p = "0.5" THEN (IF keep THEN 2 * v ELSE 0) ELSE v

\* aggr=[SumAggregation(), MaxAggregation()], mode="message_booster": per
\* node the sum and the maximum of the incoming messages, multiplied.  Both
\* scatter into a zero tensor of dim_size rows.
Incoming(index, n) == {e \in 1..Len(index) : index[e] = n}

SumAggregation(inputs, index, dim_size) ==
    [n \in 1..dim_size |-> SetSum(Incoming(index, n - 1), inputs)]

MaxAggregation(inputs, index, dim_size) ==
    [n \in 1..dim_size |->
        IF Incoming(index, n - 1) = {} THEN 0
        ELSE SetMax({inputs[e] : e \in Incoming(index, n - 1)})]

aggregate(inputs, index, dim_size) ==
    [n \in 1..dim_size |->
        SumAggregation(inputs, index, dim_size)[n]
        * MaxAggregation(inputs, index, dim_size)[n]]

\* size=[x.size(0), None]
dim_size(x, index) == Len(x)

GCNEConv_message(edge_attr) == edge_attr

GCNEConv_update(layer, message, x) ==
    [n \in 1..Len(x) |->
        NodeEdgeMessageCommunicator_forward(layer.communicator_name, message[n], x[n])]

\* Aggregation at the source end of each edge (flow="target_to_source").
GCNEConv_aggr_at_source(x, edge_attr, edge_index) ==
    aggregate(GCNEConv_message(edge_attr), edge_index[1], dim_size(x, edge_index[1]))

GCNEConv_aggr(x, edge_attr, edge_index) ==
    aggregate(GCNEConv_message(edge_attr), edge_index[2], dim_size(x, edge_index[2]))

\* x[edge_index[1]] in place of x[edge_index[0]].
edge_update_node_target(edge_index) == edge_index[2]

edge_update_node(edge_index) == edge_index[1]

edge_update(layer, x, edge_index, edge_attr, init_edge_embed, mask) ==
    LET rev_edge_index == get_reverse_edge_index(Len(edge_attr))
        node == edge_update_node(edge_index)
        x_node == [e \in 1..Len(node) |-> Row(x, node[e])]
        edge_rev == [k \in 1..Len(rev_edge_index) |-> Row(edge_attr, rev_edge_index[k])]
        rows == BroadcastDim(Len(x_node), Len(edge_rev))
        diff == [k \in 1..rows |-> Expand(x_node, rows, k) - Expand(edge_rev, rows, k)]
        lin == [k \in 1..rows |-> Linear(layer.lin, diff[k])]
        out_rows == BroadcastDim(Len(init_edge_embed), rows)
    IN  IF rows < 0 \/ out_rows < 0 THEN Raise
        ELSE [status |-> "ok",
              edge_attr |->
                [k \in 1..out_rows |->
                    dropout(relu(Expand(init_edge_embed, out_rows, k)
                                 + Expand(lin, out_rows, k)),
                            layer.dropout, layer.training, mask[k])]]

GCNEConv_forward(layer, x, edge_attr, edge_index, init_edge_embed, mask) ==
    LET x_new == GCNEConv_update(layer, GCNEConv_aggr(x, edge_attr, edge_index), x)
        edge_new == edge_update(layer, x_new, edge_index, edge_attr, init_edge_embed, mask)
    IN  IF edge_new.status = "raise" THEN Raise
        ELSE [status |-> "ok", x |-> x_new, edge_attr |-> edge_new.edge_attr]

GCNConv_message(edge_attr) == edge_attr

GCNConv_update(layer, message, x) ==
    [n \in 1..Len(x) |->
        NodeEdgeMessageCommunicator_forward(layer.communicator_name, message[n], x[n])]

GCNConv_aggr(x, edge_attr, edge_index) ==
    aggregate(GCNConv_message(edge_attr), edge_index[2], dim_size(x, edge_index[2]))

GCNConv_forward(layer, x, edge_attr, edge_index) ==
    [status |-> "ok",
     x |-> GCNConv_update(layer, GCNConv_aggr(x, edge_attr, edge_index), x)]

(***************************************************************************)
(* Calls of GCNEConv.forward and GCNConv.forward on one batch.  The edges  *)
(* of a batch come in pairs, bond k as edges 2k and 2k+1 in opposite       *)
(* directions; a batch with an odd edge count has one more edge after the  *)
(* pairs.                                                                  *)
(***************************************************************************)
Values == {0, 1}

LayerConfigs ==
    [communicator_name : CommunicatorNames, dropout : {"0.0"}, training : {TRUE},
     lin : {[weight |-> 2, bias |-> 0]}]
    \cup
    [communicator_name : {"additive"}, dropout : {"0.5"}, training : BOOLEAN,
     lin : {[weight |-> 2, bias |-> 0]}]

EdgeIndex(E, bonds, extra) ==
    <<[e \in 1..E |->
          IF e > 2 * (E \div 2) THEN extra[1]
          ELSE IF e % 2 = 1 THEN bonds[(e + 1) \div 2][1] ELSE bonds[e \div 2][2]],
      [e \in 1..E |->
          IF e > 2 * (E \div 2) THEN extra[2]
          ELSE IF e % 2 = 1 THEN bonds[(e + 1) \div 2][2] ELSE bonds[e \div 2][1]]>>

Masks(layer, E) ==
    IF layer.training /\ layer.dropout = "0.5" THEN [1..E -> BOOLEAN]
    ELSE {[e \in 1..E |-> TRUE]}

InitConv ==
    /\ pc = "call"
    /\ self \in LayerConfigs
    /\ \E N \in 1..MaxNodes, E \in 0..MaxEdges :
         \E bonds \in [1..(E \div 2) -> (0..N - 1) \X (0..N - 1)],
            extra \in (0..N - 1) \X (0..N - 1) :
            /\ (E % 2 = 0 => extra = <<0, 0>>)
            /\ args \in [x : [1..N -> Values],
                         edge_attr : [1..E -> Values],
                         edge_index : {EdgeIndex(E, bonds, extra)},
                         init_edge_embed : [1..E -> Values]]
    /\ local = None
    /\ ret = None

GCNEConvForward ==
    /\ pc = "call"
    /\ pc' = "done"
    /\ \E mask \in Masks(self, Len(args.edge_attr)) :
         /\ local' = [op |-> "GCNEConv.forward",
                      aggr |-> GCNEConv_aggr(args.x, args.edge_attr, args.edge_index),
                      rev_edge_index |-> get_reverse_edge_index(Len(args.edge_attr)),
                      mask |-> mask]
         /\ ret' = GCNEConv_forward(self, args.x, args.edge_attr, args.edge_index,
                                    args.init_edge_embed, mask)
    /\ UNCHANGED <<self, args>>

GCNConvForward ==
    /\ pc = "call"
    /\ pc' = "done"
    /\ local' = [op |-> "GCNConv.forward",
                 aggr |-> GCNConv_aggr(args.x, args.edge_attr, args.edge_index)]
    /\ ret' = GCNConv_forward(self, args.x, args.edge_attr, args.edge_index)
    /\ UNCHANGED <<self, args>>

NextConv == GCNEConvForward \/ GCNConvForward

SpecConv == InitConv /\ [][NextConv]_vars

(***************************************************************************)
(* BatchGRU: the batched bidirectional readout.                            *)
(***************************************************************************)
\* The learned parameters of nn.GRU(bidirectional=True): one cell per
\* direction.
batch_gru == [forward |-> [w_ih |-> 1, w_hh |-> 2, b |-> 1],
              reverse |-> [w_ih |-> 1, w_hh |-> 3, b |-> 0]]

RECURSIVE SortedSeq(_)
SortedSeq(S) ==
    IF S = {} THEN <<>>
    ELSE LET m == CHOOSE m \in S : \A k \in S : m <= k
         IN  <<m>> \o SortedSeq(S \ {m})

\* torch.unique(batch, return_counts=True)
unique(batch) == SortedSeq({batch[n] : n \in 1..Len(batch)})

unique_counts(batch, unique_values) ==
    [i \in 1..Len(unique_values) |->
        Cardinality({n \in 1..Len(batch) : batch[n] = unique_values[i]})]

\* (batch == value).nonzero().squeeze(1): the positions, from 0, ascending.
nonzero(batch, value) ==
    SelectSeq([n \in 1..Len(batch) |-> n - 1], LAMBDA i : Row(batch, i) = value)

\* nn.GRU over a padded batch: each direction runs over all dim_2 slots of
\* a row, the forward one from slot 1 and the reverse one from slot dim_2,
\* each from its initial state.
RECURSIVE gru_forward_direction(_, _, _)
gru_forward_direction(row, h0, t) ==
    IF t = 0 THEN h0
    ELSE GRUCell(batch_gru.forward, row[t], gru_forward_direction(row, h0, t - 1))

RECURSIVE gru_reverse_direction(_, _, _)
gru_reverse_direction(row, h0, t) ==
    IF t = Len(row) + 1 THEN h0
    ELSE GRUCell(batch_gru.reverse, row[t], gru_reverse_direction(row, h0, t + 1))

GRU(messages, hidden_states) ==
    [i \in 1..Len(messages) |->
        [t \in 1..Len(messages[i]) |->
            <<gru_forward_direction(messages[i], hidden_states[1][i], t),
              gru_reverse_direction(messages[i], hidden_states[2][i], t)>>]]

\* out[mask, :] = rows, with the rows taken last to first.
masked_assign_reversed(out, positions, rows) ==
    [n \in 1..Len(out) |->
        IF \E k \in 1..Len(positions) : positions[k] = n - 1
        THEN rows[Len(positions) + 1
                  - (CHOOSE k \in 1..Len(positions) : positions[k] = n - 1)]
        ELSE out[n]]

\* out[mask, :] = rows: the k-th selected position takes the k-th row.
masked_assign(out, positions, rows) ==
    [n \in 1..Len(out) |->
        IF \E k \in 1..Len(positions) : positions[k] = n - 1
        THEN rows[CHOOSE k \in 1..Len(positions) : positions[k] = n - 1]
        ELSE out[n]]

\* The second loop of forward, from graph i on; writes counts the
\* assignments each output row has received.
RECURSIVE unpad_loop(_, _, _, _, _, _)
unpad_loop(i, batch, unique_values, counts, h_messages, acc) ==
    IF i > Len(unique_values) THEN acc
    ELSE unpad_loop(i + 1, batch, unique_values, counts, h_messages,
             [unpadded_messages |->
                  masked_assign(acc.unpadded_messages,
                                nonzero(batch, unique_values[i]),
                                SubSeq(h_messages[i], 1, counts[i])),
              writes |->
                  [n \in 1..Len(batch) |->
                      acc.writes[n]
                      + (IF Row(batch, n - 1) = unique_values[i] THEN 1 ELSE 0)]])

BatchGRU_forward(bias, h_atom, batch) ==
    LET num_atoms == Len(h_atom)
        message == [n \in 1..num_atoms |-> relu(h_atom[n] + bias)]
        unique_values == unique(batch)
        counts == unique_counts(batch, unique_values)
        dim_1 == Len(unique_values)
        dim_2 == SetMax({counts[i] : i \in 1..dim_1})
        indices(i) == nonzero(batch, unique_values[i])
        messages ==
            [i \in 1..dim_1 |->
                [t \in 1..dim_2 |->
                    IF t <= counts[i] THEN Row(message, indices(i)[t]) ELSE 0]]
        pooled ==
            [i \in 1..dim_1 |->
                SetMax({Row(h_atom, indices(i)[k]) : k \in 1..counts[i]})]
        hidden_states == <<pooled, pooled>>
        h_messages == GRU(messages, hidden_states)
        unpadded ==
            unpad_loop(1, batch, unique_values, counts, h_messages,
                       [unpadded_messages |-> [n \in 1..num_atoms |-> <<0, 0>>],
                        writes |-> [n \in 1..num_atoms |-> 0]])
    IN  IF num_atoms = 0
        THEN [status |-> "raise"]
        ELSE [status |-> "ok",
              unpadded_messages |-> unpadded.unpadded_messages,
              messages |-> messages,
              hidden_states |-> hidden_states,
              h_messages |-> h_messages,
              writes |-> unpadded.writes]

(***************************************************************************)
(* Calls of BatchGRU.forward.  Graph ids need not be contiguous nor        *)
(* grouped.                                                                *)
(***************************************************************************)
GraphIds == {-1, 0, 2}

AtomValues == {-1, 1}

Biases == {0, 1}

InitReadout ==
    /\ pc = "call"
    /\ self \in [bias : Biases]
    /\ \E N \in 0..MaxAtoms :
         args \in [h_atom : [1..N -> AtomValues], batch : [1..N -> GraphIds]]
    /\ local = None
    /\ ret = None

BatchGRUReturns(run) ==
    IF run.status = "raise"
    THEN ret' = Raise /\ local' = None
    ELSE /\ ret' = [status |-> "ok", unpadded_messages |-> run.unpadded_messages]
         /\ local' = [messages |-> run.messages,
                      hidden_states |-> run.hidden_states,
                      h_messages |-> run.h_messages,
                      writes |-> run.writes]

BatchGRUForward ==
    /\ pc = "call"
    /\ pc' = "done"
    /\ BatchGRUReturns(BatchGRU_forward(self.bias, args.h_atom, args.batch))
    /\ UNCHANGED <<self, args>>

NextReadout == BatchGRUForward

SpecReadout == InitReadout /\ [][NextReadout]_vars

(***************************************************************************)
(* CMPNN: construction, and the shapes <<rows, columns>> of forward.       *)
(***************************************************************************)
\* NodeEdgeMessageCommunicator.__init__: the assert on the policy name.
communicator_init_ok(name) == name \in CommunicatorNames

\* litgnn/nn/models/cmpnn/model.py: num_layers - 1 GCNEConv, then one
\* GCNConv.  range(k) is empty for k <= 0.
CMPNN_nn_convs(num_layers) ==
    [k \in 1..num_layers - 1 |-> "GCNEConv"] \o <<"GCNConv">>

CMPNN_nn_init(kwargs) ==
    IF ~communicator_init_ok(kwargs.communicator_name) THEN Raise
    ELSE [status |-> "ok",
          cls |-> "litgnn.nn.models.cmpnn.CMPNN",
          hidden_channels |-> kwargs.hidden_channels,
          out_channels |-> kwargs.out_channels,
          convs |-> CMPNN_nn_convs(kwargs.num_layers),
          lin |-> <<kwargs.hidden_channels * 3, kwargs.out_channels>>,
          gru |-> kwargs.hidden_channels,
          seq_out |-> <<kwargs.hidden_channels * 2, kwargs.hidden_channels>>]

\* litgnn/models/cmpnn/model.py: num_layers GCNEConv.
CMPNN_models_convs(num_layers) == [k \in 1..num_layers |-> "GCNEConv"]

CMPNN_models_init(kwargs) ==
    IF CMPNN_models_convs(kwargs.num_layers) # <<>>
       /\ ~communicator_init_ok(kwargs.communicator_name)
    THEN Raise
    ELSE [status |-> "ok",
          cls |-> "litgnn.models.cmpnn.CMPNN",
          hidden_channels |-> kwargs.hidden_channels,
          out_channels |-> kwargs.out_channels,
          convs |-> CMPNN_models_convs(kwargs.num_layers),
          lin |-> <<kwargs.hidden_channels * 3, kwargs.out_channels>>,
          gru |-> kwargs.hidden_channels,
          seq_out |-> <<kwargs.hidden_channels * 2, kwargs.hidden_channels>>]

\* nn.Linear(in_features, out_features) on a tensor of shape <<rows, cols>>.
Linear_shape(lin, shape) ==
    IF shape[2] # lin[1] THEN Raise
    ELSE [status |-> "ok", shape |-> <<shape[1], lin[2]>>]

\* target[...] = source along the feature axis: the source has the
\* target's width or width 1.
assignable(source_cols, target_cols) ==
    source_cols = target_cols \/ source_cols = 1

\* BatchGRU.forward on h_atom of the given shape, for a module built with
\* hidden_channels.
BatchGRU_forward_shape(hidden_channels, shape) ==
    LET message_cols == BroadcastDim(shape[2], hidden_channels)
    IN  IF message_cols < 0 THEN Raise
        ELSE IF shape[1] = 0 THEN Raise
        ELSE IF ~assignable(message_cols, hidden_channels) THEN Raise
        ELSE IF ~assignable(shape[2], hidden_channels) THEN Raise
        ELSE [status |-> "ok", shape |-> <<shape[1], hidden_channels * 2>>]

\* CMPNN.forward of litgnn/nn/models/cmpnn/model.py on a batch of N nodes
\* and E edges in pairs: every layer keeps N rows of width hidden_channels.
CMPNN_forward_shape(model, N, E) ==
    LET H == model.hidden_channels
        aggr_message == <<N, H>>
        atom_embed == <<N, H>>
        init_atom_embed == <<N, H>>
        cat == <<N, aggr_message[2] + atom_embed[2] + init_atom_embed[2]>>
        lin == Linear_shape(model.lin, cat)
        gru == BatchGRU_forward_shape(model.gru, lin.shape)
    IN  IF lin.status = "raise" THEN Raise
        ELSE IF gru.status = "raise" THEN Raise
        ELSE Linear_shape(model.seq_out, gru.shape)

(***************************************************************************)
(* Construction of either CMPNN class, then calls of forward.              *)
(***************************************************************************)
InitModel ==
    /\ pc = "call"
    /\ self = None
    /\ args \in [num_layers : -1..MaxLayers,
                 communicator_name : CommunicatorNames \cup {"attention"},
                 hidden_channels : 1..MaxChannels,
                 out_channels : 1..MaxChannels]
    /\ local = None
    /\ ret = None

Construct(model) ==
    /\ ret' = [status |-> model.status]
    /\ self' = IF model.status = "ok" THEN model ELSE None
    /\ pc' = IF model.status = "ok" THEN "constructed" ELSE "done"
    /\ local' = [kwargs |-> args]
    /\ UNCHANGED args

CMPNNInit ==
    /\ pc = "call"
    /\ Construct(CMPNN_nn_init(args))

CMPNNModelsInit ==
    /\ pc = "call"
    /\ Construct(CMPNN_models_init(args))

CMPNNForward ==
    /\ pc = "constructed"
    /\ self.cls = "litgnn.nn.models.cmpnn.CMPNN"
    /\ pc' = "returned"
    /\ \E N \in 1..MaxNodes, bonds \in 0..(MaxEdges \div 2) :
         /\ args' = [N |-> N, E |-> 2 * bonds]
         /\ ret' = CMPNN_forward_shape(self, N, 2 * bonds)
    /\ UNCHANGED <<self, local>>

NextModel == CMPNNInit \/ CMPNNModelsInit \/ CMPNNForward

SpecModel == InitModel /\ [][NextModel]_vars

(***************************************************************************)
(* Calls of get_reverse_edge_index                                         *)
(***************************************************************************)
InitRev ==
    /\ pc = "call"
    /\ self = None
    /\ args \in [num_edges : 0..MaxNumEdges]
    /\ local = None
    /\ ret = None

GetReverseEdgeIndex ==
    /\ pc = "call"
    /\ pc' = "done"
    /\ ret' = get_reverse_edge_index(args.num_edges)
    /\ UNCHANGED <<self, args, local>>

NextRev == GetReverseEdgeIndex

SpecRev == InitRev /\ [][NextRev]_vars

(***************************************************************************)
(* Calls of NodeEdgeMessageCommunicator.forward                            *)
(***************************************************************************)
CommValues == -2..2

InitComm ==
    /\ pc = "call"
    /\ self \in [name : CommunicatorNames]
    /\ args \in [message : CommValues, hidden_state : CommValues]
    /\ local = None
    /\ ret = None

CommunicatorForward ==
    /\ pc = "call"
    /\ pc' = "done"
    /\ ret' = NodeEdgeMessageCommunicator_forward(self.name, args.message,
                                                  args.hidden_state)
    /\ UNCHANGED <<self, args, local>>

NextComm == CommunicatorForward

SpecComm == InitComm /\ [][NextComm]_vars

(***************************************************************************)
(* PNA (litgnn/models/pna.py): the class-level degree histogram.           *)
(*                                                                         *)
(* A behaviour is a sequence of calls on the loaded module.  self holds    *)
(* the class objects, each one its own namespace (the class __dict__):     *)
(* PNA defines deg, the subclass SubPNA defines nothing of its own.        *)
(* local holds the instances built so far and the log of the calls made;   *)
(* args and ret are the arguments and the outcome of the last call.        *)
(* A tensor of counts is Tensor(h) for a sequence h: h[d + 1] is the       *)
(* code's histogram[d].                                                    *)
(***************************************************************************)
MaxCalls == 4

Classes == {"PNA", "SubPNA"}

Tensor(data) == [data |-> data]

\* class SubPNA(PNA): the method resolution order after the class itself.
base(cls) == "PNA"

\* Attribute lookup on a class: its own namespace, then its base's.
getattr(classes, cls, name) ==
    IF name \in DOMAIN classes[cls] THEN classes[cls][name]
    ELSE classes[base(cls)][name]

\* Attribute assignment on a class: always into its own namespace.
setattr(classes, cls, name, value) ==
    [classes EXCEPT ![cls] =
        [k \in DOMAIN classes[cls] \cup {name} |->
            IF k = name THEN value ELSE classes[cls][k]]]

\* torch_geometric.utils.degree(index, num_nodes)
degree(index, num_nodes) ==
    [n \in 1..num_nodes |-> Cardinality({e \in 1..Len(index) : index[e] = n - 1})]

\* torch.bincount(input, minlength)
bincount(input, minlength) ==
    LET numel == IF Len(input) = 0 THEN minlength
                 ELSE LET m == SetMax({input[n] : n \in 1..Len(input)}) + 1
                      IN  IF m > minlength THEN m ELSE minlength
    IN  [d \in 1..numel |-> Cardinality({n \in 1..Len(input) : input[n] = d - 1})]

\* a[:len(b)] += b
add_prefix(a, b) ==
    [d \in 1..Len(a) |-> IF d <= Len(b) THEN a[d] + b[d] ELSE a[d]]

\* PNAConv.get_degree_histogram: the loop over the batches of the loader.
RECURSIVE degree_histogram_loop(_, _, _)
degree_histogram_loop(loader, i, deg_histogram) ==
    IF i > Len(loader) THEN deg_histogram
    ELSE LET data == loader[i]
             deg == degree(data.edge_index[2], data.num_nodes)
             deg_bincount == bincount(deg, Len(deg_histogram))
         IN  IF Len(deg_bincount) > Len(deg_histogram)
             THEN degree_histogram_loop(loader, i + 1,
                                        add_prefix(deg_bincount, deg_histogram))
             ELSE degree_histogram_loop(loader, i + 1,
                                        add_prefix(deg_histogram, deg_bincount))

get_degree_histogram(dataloader) ==
    Tensor(degree_histogram_loop(dataloader, 1, <<0>>))

\* The attribute the constructor would read were it written cls.deg.
cls_deg(classes, cls) == getattr(classes, cls, "deg")

\* PNA.deg, as the constructor names it.
PNA_deg(classes, cls) == getattr(classes, "PNA", "deg")

\* kwargs["deg"] = PNA.deg
kwargs_with_deg(kwargs, deg) ==
    [k \in DOMAIN kwargs \cup {"deg"} |-> IF k = "deg" THEN deg ELSE kwargs[k]]

\* super().__init__(**kwargs): the instance is built from the keyword
\* arguments it is passed.
super_init(cls, kwargs) == [class |-> cls, kwargs |-> kwargs]

\* PNA.__init__: the outcome of cls(**kwargs).
PNA_init(classes, cls, kwargs) ==
    IF PNA_deg(classes, cls) = None
    THEN [status |-> "AssertionError"]
    ELSE [status |-> "ok",
          instance |-> super_init(cls, kwargs_with_deg(kwargs, PNA_deg(classes, cls)))]

\* Data batches: a bond between two nodes; a path of three nodes.
BondBatch == [num_nodes |-> 2, edge_index |-> <<<<0, 1>>, <<1, 0>>>>]

PathBatch == [num_nodes |-> 3, edge_index |-> <<<<0, 2, 1, 1>>, <<1, 1, 0, 2>>>>]

Dataloaders == {<<>>, <<BondBatch>>, <<BondBatch, PathBatch, BondBatch>>}

\* Keyword arguments of a construction, without and with a deg of the
\* caller's own.
Kwargs == {[in_channels |-> 1], [in_channels |-> 1, deg |-> Tensor(<<1>>)]}

InitPNA ==
    /\ pc = "loaded"
    /\ self = [PNA |-> [deg |-> None], SubPNA |-> [k \in {} |-> None]]
    /\ args = None
    /\ local = [instances |-> <<>>, calls |-> <<>>]
    /\ ret = None

ComputeDegree ==
    \E cls \in Classes, dataloader \in Dataloaders :
        /\ Len(local.calls) < MaxCalls
        /\ pc' = "called"
        /\ args' = [cls |-> cls, dataloader |-> dataloader]
        /\ self' = setattr(self, cls, "deg", get_degree_histogram(dataloader))
        /\ ret' = [status |-> "ok"]
        /\ local' = [local EXCEPT !.calls =
                        Append(@, [op |-> "compute_degree", cls |-> cls,
                                   dataloader |-> dataloader, status |-> "ok",
                                   instance |-> 0])]

PNAConstructs(cls, kwargs, outcome) ==
    /\ pc' = "called"
    /\ args' = [cls |-> cls, kwargs |-> kwargs]
    /\ ret' = outcome
    /\ local' = IF outcome.status = "ok"
                THEN [instances |-> Append(local.instances, outcome.instance),
                      calls |-> Append(local.calls,
                                       [op |-> "__init__", cls |-> cls, kwargs |-> kwargs,
                                        status |-> "ok",
                                        instance |-> Len(local.instances) + 1])]
                ELSE [local EXCEPT !.calls =
                         Append(@, [op |-> "__init__", cls |-> cls, kwargs |-> kwargs,
                                    status |-> outcome.status, instance |-> 0])]
    /\ UNCHANGED self

PNAInit ==
    \E cls \in Classes, kwargs \in Kwargs :
        /\ Len(local.calls) < MaxCalls
        /\ PNAConstructs(cls, kwargs, PNA_init(self, cls, kwargs))

NextPNA == ComputeDegree \/ PNAInit

SpecPNA == InitPNA /\ [][NextPNA]_vars

(***************************************************************************)
(* C7: for every even num_edges, get_reverse_edge_index returns a list of  *)
(* length num_edges that pairs 2k with 2k+1: r[2k] = 2k+1, r[2k+1] = 2k,   *)
(* a permutation of 0..num_edges-1 that is an involution without fixed     *)
(* point.                                                                  *)
(***************************************************************************)
C7_ReversePairing ==
    (pc = "done" /\ args.num_edges % 2 = 0) =>
        LET E == args.num_edges
            r == ret
        IN  /\ Len(r) = E
            /\ \A k \in 0..(E \div 2) - 1 :
                  /\ Row(r, 2 * k) = 2 * k + 1
                  /\ Row(r, 2 * k + 1) = 2 * k
            /\ {Row(r, i) : i \in 0..E - 1} = 0..E - 1
            /\ \A i \in 0..E - 1 : Row(r, Row(r, i)) = i /\ Row(r, i) # i

\* C7: the call for two bonds returns [1, 0, 3, 2].
C7_Witness ==
    /\ pc = "done"
    /\ args.num_edges = 4
    /\ ret = <<1, 0, 3, 2>>

(***************************************************************************)
(* C9: with policy 'gru' the recurrent cell gets message as its step input *)
(* and hidden_state as its prior state: the communicator returns           *)
(* C(message, hidden_state).                                               *)
(***************************************************************************)
C9_GruMessageIsInput ==
    (pc = "done" /\ self.name = "gru") =>
        ret = GRUCell(communicator_gru, args.message, args.hidden_state)

(***************************************************************************)
(* C4: GCNConv, the final layer, returns the raw fused sum/max aggregate   *)
(* of the incoming edge embeddings of each node: the communicator is not   *)
(* applied, so the result does not depend on the node embedding passed in. *)
(***************************************************************************)
C4_FinalLayerReturnsRawAggregate ==
    (pc = "done" /\ local.op = "GCNConv.forward") =>
        ret.x = aggregate(args.edge_attr, args.edge_index[2], Len(args.x))

(***************************************************************************)
(* C5: GCNEConv.forward on an odd number of edges raises and returns       *)
(* nothing: no edge embedding tensor with a row count other than E.        *)
(***************************************************************************)
C5_OddEdgeCountRaises ==
    (pc = "done" /\ local.op = "GCNEConv.forward" /\ Len(args.edge_attr) % 2 = 1) =>
        ret.status = "raise"

(***************************************************************************)
(* C6: the aggregate has one row per node, N rows; a node without          *)
(* incoming edge gets the zero aggregate and its updated embedding is      *)
(* communicator(0, its current embedding).                                 *)
(***************************************************************************)
NoIncomingEdge(n) == \A e \in 1..Len(args.edge_index[2]) : args.edge_index[2][e] # n - 1

\* C6: after either layer's propagation the aggregate has N rows, is 0 at
\* every node without incoming edge, and such a node's updated embedding
\* is communicator(0, embedding).
C6_IsolatedNodeAggregate ==
    (pc = "done") =>
        /\ Len(local.aggr) = Len(args.x)
        /\ \A n \in 1..Len(args.x) :
              NoIncomingEdge(n) =>
                  /\ local.aggr[n] = 0
                  /\ ret.status = "ok" =>
                        ret.x[n] = NodeEdgeMessageCommunicator_forward(
                                       self.communicator_name, 0, args.x[n])

\* C6: a successful GCNEConv call on two edges that leave a node with a
\* nonzero embedding without incoming edge, and reach another node.
C6_Witness ==
    /\ pc = "done"
    /\ local.op = "GCNEConv.forward"
    /\ ret.status = "ok"
    /\ Len(args.edge_attr) = 2
    /\ \E n \in 1..Len(args.x) : NoIncomingEdge(n) /\ args.x[n] = 1 /\ ret.x[n] # 0
    /\ \E n \in 1..Len(args.x) : ~NoIncomingEdge(n) /\ local.aggr[n] # 0

(***************************************************************************)
(* C8: the edge update of GCNEConv.  Edge e = (src, dst) is paired with    *)
(* its reverse edge e'; the node embedding of the layer is first updated   *)
(* from the aggregate of the edges whose target is the node, and the new   *)
(* embedding of e is                                                       *)
(*   dropout(relu(init_edge_embed[e] + Lin(node_embed'[v] - edge_embed[e'])))  *)
(* As claimed, v is dst, the end at which e is aggregated                  *)
(* (C8_EdgeUpdateUsesTarget).  In the code v is src, the opposite end      *)
(* (C8_EdgeUpdateUsesSource), for every even edge count.                   *)
(***************************************************************************)
PairedReverse(e) == IF e % 2 = 1 THEN e + 1 ELSE e - 1

UpdatedNodeEmbed ==
    [n \in 1..Len(args.x) |->
        NodeEdgeMessageCommunicator_forward(
            self.communicator_name,
            aggregate(args.edge_attr, args.edge_index[2], Len(args.x))[n],
            args.x[n])]

EdgeUpdateAt(row) ==
    /\ ret.status = "ok"
    /\ ret.x = UpdatedNodeEmbed
    /\ Len(ret.edge_attr) = Len(args.edge_attr)
    /\ \A e \in 1..Len(args.edge_attr) :
          ret.edge_attr[e] =
              dropout(relu(args.init_edge_embed[e]
                           + Linear(self.lin,
                                    ret.x[args.edge_index[row][e] + 1]
                                    - args.edge_attr[PairedReverse(e)])),
                      self.dropout, self.training, local.mask[e])

\* C8 as claimed: the difference is taken at dst, edge_index[1][e].
C8_EdgeUpdateUsesTarget ==
    (pc = "done" /\ local.op = "GCNEConv.forward" /\ Len(args.edge_attr) % 2 = 0) =>
        EdgeUpdateAt(2)

\* C8 as amended: the difference is taken at src, edge_index[0][e].
C8_EdgeUpdateUsesSource ==
    (pc = "done" /\ local.op = "GCNEConv.forward" /\ Len(args.edge_attr) % 2 = 0) =>
        EdgeUpdateAt(1)

\* C8: a training-mode call on one bond between two nodes whose updated
\* embeddings differ, where dropout keeps edge 0 and drops edge 1.
C8_Witness ==
    /\ pc = "done"
    /\ local.op = "GCNEConv.forward"
    /\ Len(args.edge_attr) = 2
    /\ ret.status = "ok"
    /\ args.edge_index[1][1] # args.edge_index[2][1]
    /\ ret.x[args.edge_index[1][1] + 1] # ret.x[args.edge_index[2][1] + 1]
    /\ self.training /\ self.dropout = "0.5"
    /\ local.mask[1] /\ ~local.mask[2]
    /\ ret.edge_attr[1] > 0

(***************************************************************************)
(* C1: the readout rows of a graph depend on that graph's own node         *)
(* embeddings and the bias alone: they are the rows BatchGRU.forward       *)
(* returns for the graph run alone, whatever else the batch holds.         *)
(***************************************************************************)
GraphPositions(v) == nonzero(args.batch, v)

GraphAlone(v) ==
    BatchGRU_forward(self.bias,
                     [k \in 1..Len(GraphPositions(v)) |->
                         Row(args.h_atom, GraphPositions(v)[k])],
                     [k \in 1..Len(GraphPositions(v)) |-> v])

\* C1: every graph's rows of the batched result equal the result of the
\* graph run alone.
C1_ReadoutIndependentOfOtherGraphs ==
    (pc = "done" /\ ret.status = "ok") =>
        \A v \in {args.batch[n] : n \in 1..Len(args.batch)} :
            [k \in 1..Len(GraphPositions(v)) |->
                Row(ret.unpadded_messages, GraphPositions(v)[k])]
            = GraphAlone(v).unpadded_messages

(***************************************************************************)
(* C2: CMPNN.forward completes on every valid batch and returns a tensor   *)
(* of shape N x out_channels, for every hidden_channels and out_channels.  *)
(***************************************************************************)
C2_ForwardShape ==
    (pc = "returned") =>
        /\ ret.status = "ok"
        /\ ret.shape = <<args.N, self.out_channels>>

(***************************************************************************)
(* C3: constructing a CMPNN of either class with num_layers < 1 fails:     *)
(* no model is returned and no convolution stack is built.                 *)
(***************************************************************************)
C3_NonPositiveLayersRejected ==
    (pc \in {"constructed", "done"} /\ local.kwargs.num_layers < 1) =>
        /\ ret.status = "raise"
        /\ self = None

(***************************************************************************)
(* C10: the pad/unpad round trip.  Node n of the graph with sorted-unique  *)
(* index g, the r-th node of its graph, is copied to padded slot (g, r);   *)
(* the slots after a graph's nodes stay zero; output row n is the          *)
(* recurrent output at (g, r) and is written exactly once.                 *)
(***************************************************************************)
GraphIndexOf(n) ==
    Cardinality({v \in {args.batch[m] : m \in 1..Len(args.batch)} : v < args.batch[n]}) + 1

RankInGraph(n) == Cardinality({m \in 1..n : args.batch[m] = args.batch[n]})

GraphSize(g) == Cardinality({n \in 1..Len(args.batch) : GraphIndexOf(n) = g})

\* C10: slot (g, r) holds node n's message, the padding is zero, and
\* output row n is the recurrent output at (g, r), written once.
C10_PadUnpadRoundTrip ==
    (pc = "done" /\ ret.status = "ok") =>
        /\ Len(ret.unpadded_messages) = Len(args.batch)
        /\ \A n \in 1..Len(args.batch) :
              /\ local.messages[GraphIndexOf(n)][RankInGraph(n)]
                     = relu(args.h_atom[n] + self.bias)
              /\ ret.unpadded_messages[n]
                     = local.h_messages[GraphIndexOf(n)][RankInGraph(n)]
              /\ local.writes[n] = 1
        /\ \A g \in 1..Len(local.messages) :
              /\ Len(local.messages[g])
                     = SetMax({GraphSize(k) : k \in 1..Len(local.messages)})
              /\ \A t \in 1..Len(local.messages[g]) :
                    t > GraphSize(g) => local.messages[g][t] = 0

\* C10: interleaved, non-contiguous graph ids: a 1-node graph packed with
\* a 3-node graph whose rows get distinct outputs.
C10_Witness ==
    /\ pc = "done"
    /\ ret.status = "ok"
    /\ args.batch = <<2, -1, 2, 2>>
    /\ args.h_atom = <<1, 1, -1, 1>>
    /\ self.bias = 1
    /\ local.messages = <<<<2, 0, 0>>, <<2, 0, 2>>>>
    /\ ret.unpadded_messages[2] = local.h_messages[1][1]
    /\ ret.unpadded_messages[1] # ret.unpadded_messages[3]
    /\ ret.unpadded_messages[3] # ret.unpadded_messages[4]

(***************************************************************************)
(* C11: the class-level degree cache of PNA, over every sequence of        *)
(* compute_degree and constructor calls on PNA and on a subclass.  A       *)
(* construction fails with an assertion error exactly when no              *)
(* PNA.compute_degree call came before it; otherwise it succeeds and the   *)
(* instance is passed the histogram of the most recent PNA.compute_degree  *)
(* call before it, which it keeps whatever is called later.  PNA.deg is    *)
(* None until the first PNA.compute_degree call and then the histogram of  *)
(* the most recent one; compute_degree on the subclass sets the            *)
(* subclass's own deg and nothing else.                                    *)
(***************************************************************************)
ComputeCalls(cls, i) ==
    {j \in 1..i - 1 : local.calls[j].op = "compute_degree" /\ local.calls[j].cls = cls}

LatestHistogram(cls, i) ==
    get_degree_histogram(local.calls[SetMax(ComputeCalls(cls, i))].dataloader)

\* C11: every logged construction failed or was passed the histogram as
\* claimed, every instance still holds what it was built with, and each
\* class namespace holds what its own compute_degree calls left there.
C11_DegreeCache ==
    (pc = "called") =>
        LET calls == local.calls
            now == Len(calls) + 1
        IN  /\ \A i \in 1..Len(calls) :
                  calls[i].op = "__init__" =>
                      IF ComputeCalls("PNA", i) = {}
                      THEN calls[i].status = "AssertionError" /\ calls[i].instance = 0
                      ELSE /\ calls[i].status = "ok"
                           /\ calls[i].instance \in 1..Len(local.instances)
                           /\ local.instances[calls[i].instance].class = calls[i].cls
                           /\ local.instances[calls[i].instance].kwargs["deg"]
                                  = LatestHistogram("PNA", i)
                           /\ \A k \in DOMAIN calls[i].kwargs \ {"deg"} :
                                  local.instances[calls[i].instance].kwargs[k]
                                      = calls[i].kwargs[k]
            /\ Len(local.instances)
                   = Cardinality({i \in 1..Len(calls) :
                                     calls[i].op = "__init__" /\ calls[i].status = "ok"})
            /\ \A i, j \in 1..Len(calls) :
                  (i # j /\ calls[i].instance # 0) => calls[i].instance # calls[j].instance
            /\ self["PNA"]["deg"] = IF ComputeCalls("PNA", now) = {} THEN None
                                    ELSE LatestHistogram("PNA", now)
            /\ IF ComputeCalls("SubPNA", now) = {}
               THEN DOMAIN self["SubPNA"] = {}
               ELSE /\ DOMAIN self["SubPNA"] = {"deg"}
                    /\ self["SubPNA"]["deg"] = LatestHistogram("SubPNA", now)

\* C11: SubPNA.compute_degree, a failed SubPNA construction, then
\* PNA.compute_degree and a SubPNA construction that succeeds with PNA's
\* histogram in place of the deg its caller passed and of SubPNA's own.
C11_Witness ==
    /\ pc = "called"
    /\ Len(local.calls) = 4
    /\ local.calls[1].op = "compute_degree" /\ local.calls[1].cls = "SubPNA"
    /\ local.calls[1].dataloader = <<BondBatch, PathBatch, BondBatch>>
    /\ local.calls[2].op = "__init__" /\ local.calls[2].cls = "SubPNA"
    /\ local.calls[2].status = "AssertionError"
    /\ local.calls[3].op = "compute_degree" /\ local.calls[3].cls = "PNA"
    /\ local.calls[3].dataloader = <<BondBatch>>
    /\ local.calls[4].op = "__init__" /\ local.calls[4].cls = "SubPNA"
    /\ "deg" \in DOMAIN local.calls[4].kwargs
    /\ ret.status = "ok"
    /\ Len(local.instances) = 1
    /\ local.instances[1].kwargs["deg"] = Tensor(<<0, 2>>)
    /\ self["SubPNA"]["deg"] = Tensor(<<0, 6, 1>>)
    /\ self["PNA"]["deg"] = Tensor(<<0, 2>>)

=============================================================================
